---------------------------- MODULE Spec2Model ----------------------------
(***************************************************************************)
(* Superstore Sales Dashboard (src/app.py): one run of the Streamlit       *)
(* script per widget change.  A run loads the dataset (load_data, cached),  *)
(* reads the sidebar widgets, applies the filters, and either renders the   *)
(* dashboard (metrics, grouped summaries, top-N tables, exports) or shows   *)
(* the "No data available" warning.                                         *)
(*                                                                         *)
(* Data abstraction.  Text cells are strings, the empty CSV cell is "".     *)
(* A date cell is the sequence of its "/"-separated numeric fields.  Sales, *)
(* Profit and Quantity are integers; a float that is not an integer (a      *)
(* profit margin, a mean) is an exact fraction or one of inf, -inf, nan,    *)
(* with the IEEE-754 rules numpy applies to them.                           *)
(***************************************************************************)
EXTENDS Integers, Sequences, FiniteSets, TLC

VARIABLES
    file,         \* src/data/Superstore.csv: [enc, rows]
    pc,           \* position of the script run
    exc,          \* the exception in flight ("none" when there is none)
    raw,          \* the frame pd.read_csv returned, until load_data returns
    cache,        \* st.cache_data's store: {} or {the frame load_data returned}
    df,           \* the script's df
    date_range,   \* value of the date_input widget (a tuple of 1 or 2 dates)
    regions,      \* values of the four multiselect widgets
    categories,
    segments,
    states,
    filtered_df,  \* the script's filtered_df
    dash,         \* what the dashboard branch computed and rendered
    warning       \* whether st.warning("No data available ...") was shown

vars == <<file, pc, exc, raw, cache, df, date_range, regions, categories,
          segments, states, filtered_df, dash, warning>>

---------------------------------------------------------------------------
(* Bounds of the model *)

\* most rows of a hand-written input file
MaxRows == 3
\* rows of a generated input file with one State per row
MaxWide == 16
\* most states selected in the State(s) multiselect
MaxSelStates == 1

(* Program constants *)

\* state_sales.nlargest(10, 'Sales')
TopStatesN == 10
\* groupby('Product Name')['Sales'].sum().nlargest(10)
TopProductsN == 10
\* groupby('Customer Name')['Sales'].sum().nlargest(10)
TopCustomersN == 10
\* city_data.nlargest(15, 'Sales')
TopCitiesN == 15

None == "none"
\* what pandas holds for an empty cell of a text column
NaN == "NaN"

---------------------------------------------------------------------------
(* Generic helpers *)

Range(s) == {s[i] : i \in 1..Len(s)}

Min(S) == CHOOSE x \in S : \A y \in S : x <= y

Max(S) == CHOOSE x \in S : \A y \in S : x >= y

Abs(x) == IF x < 0 THEN -x ELSE x

RECURSIVE Gcd(_, _)
Gcd(a, b) == IF b = 0 THEN a ELSE Gcd(b, a % b)

\* the subsequence of s at the increasing positions idx
RECURSIVE Pick(_, _)
Pick(s, idx) ==
    IF idx = {} THEN <<>>
    ELSE LET i == Min(idx) IN <<s[i]>> \o Pick(s, idx \ {i})

\* Python's string order on the text values that occur in the input files
Collation == <<
    "Aaron Bergman", "Alabama", "Apple Phone", "Arizona", "Avery Binder",
    "Brosina Hoffman", "Buffalo", "Bush Table", "California",
    "Canon Copier", "Chairs", "Claire Gute", "Colorado", "Consumer",
    "Corporate", "Darrin Van Huff", "Delaware", "Dell Monitor", "East",
    "Eldon Shelf", "Emily Burns", "Fellowes Box", "First Class", "Florida",
    "Frank Price", "Franklin", "Free Sample", "Furniture", "GBC Binder",
    "Gene Hale", "Georgia", "Harold Pawlan", "Hon Chair", "Ibico Binder",
    "Illinois", "Indiana", "Irene Maddox", "Jabra Headset", "Joel Eaton",
    "Ken Black", "Kensington Lock", "Kentucky", "Linda Cazamias",
    "Los Angeles", "Maria Etezadi", "Michigan", "New York", "New York City",
    "Ohio", "Oregon", "Phones", "Springfield", "Standard Class", "Tables",
    "Technology", "Texas", "Utah", "Virginia", "Washington", "West" >>

RankOf ==
    [s \in Range(Collation) |->
        CHOOSE i \in 1..Len(Collation) : Collation[i] = s]

Rank(s) == RankOf[s]

---------------------------------------------------------------------------
(* Floats that need not be integers *)

Fin(n, d) ==
    LET g == Gcd(Abs(n), Abs(d))
        sg == IF d < 0 THEN -1 ELSE 1
    IN [kind |-> "finite", num |-> sg * (n \div g), den |-> sg * (d \div g)]

Inf == [kind |-> "inf", num |-> 0, den |-> 1]

NegInf == [kind |-> "-inf", num |-> 0, den |-> 1]

NaNf == [kind |-> "nan", num |-> 0, den |-> 1]

\* numpy true division of two integer-valued floats
FDiv(a, b) ==
    IF b # 0 THEN Fin(a, b)
    ELSE IF a > 0 THEN Inf
    ELSE IF a < 0 THEN NegInf
    ELSE NaNf

\* float * positive integer
FScale(x, k) == IF x.kind = "finite" THEN Fin(x.num * k, x.den) ELSE x

\* float + float
FAdd(x, y) ==
    IF x.kind = "nan" \/ y.kind = "nan" THEN NaNf
    ELSE IF x.kind = "finite" /\ y.kind = "finite"
        THEN Fin(x.num * y.den + y.num * x.den, x.den * y.den)
    ELSE IF x.kind = "finite" THEN y
    ELSE IF y.kind = "finite" THEN x
    ELSE IF x.kind = y.kind THEN x
    ELSE NaNf

\* float / positive count
FDivCount(x, n) == IF x.kind = "finite" THEN Fin(x.num, x.den * n) ELSE x

RECURSIVE FSum(_)
FSum(s) == IF s = <<>> THEN Fin(0, 1) ELSE FAdd(s[1], FSum(Tail(s)))

\* Series.mean(): skipna=True drops NaN (and nothing else)
Mean(s) ==
    LET kept == SelectSeq(s, LAMBDA x : x.kind # "nan")
    IN IF kept = <<>> THEN NaNf ELSE FDivCount(FSum(kept), Len(kept))

RECURSIVE SumInt(_)
SumInt(s) == IF s = <<>> THEN 0 ELSE s[1] + SumInt(Tail(s))

---------------------------------------------------------------------------
(* Dates *)

IsLeap(y) == (y % 4 = 0 /\ y % 100 # 0) \/ y % 400 = 0

DaysInMonth(y, m) ==
    IF m = 2 THEN (IF IsLeap(y) THEN 29 ELSE 28)
    ELSE IF m \in {4, 6, 9, 11} THEN 30 ELSE 31

RECURSIVE DaysBeforeMonth(_, _)
DaysBeforeMonth(y, m) ==
    IF m = 1 THEN 0 ELSE DaysBeforeMonth(y, m - 1) + DaysInMonth(y, m - 1)

\* the day number of a Timestamp (proleptic Gregorian ordinal)
Ordinal(y, m, d) ==
    LET p == y - 1
    IN 365 * p + (p \div 4) - (p \div 100) + (p \div 400)
       + DaysBeforeMonth(y, m) + d

\* does the cell match format='%d/%m/%Y'
MatchesDMY(cell) ==
    /\ Len(cell) = 3
    /\ cell[3] \in 1..9999
    /\ cell[2] \in 1..12
    /\ cell[1] \in 1..DaysInMonth(cell[3], cell[2])

\* pd.to_datetime(cell, format='%d/%m/%Y') of a matching cell
ToDatetime(cell) ==
    [year |-> cell[3], month |-> cell[2], day |-> cell[1],
     ord |-> Ordinal(cell[3], cell[2], cell[1])]


---------------------------------------------------------------------------
(* The input file src/data/Superstore.csv *)

\* one line of the file, by its header's columns
CsvRow(oid, od, sd, mode, cust, seg, city, st, reg, prod, cat, sub, amounts) ==
    [OrderID |-> oid, OrderDate |-> od, ShipDate |-> sd, ShipMode |-> mode,
     CustomerName |-> cust, Segment |-> seg, City |-> city, State |-> st,
     Region |-> reg, ProductName |-> prod, Category |-> cat,
     SubCategory |-> sub, Sales |-> amounts[1], Quantity |-> amounts[2],
     Profit |-> amounts[3]]

\* hand-written rows: rows 1-3 are the three-record scenario; rows 4, 6, 7
\* have Sales = 0; row 5 has empty Ship Mode, City and Sub-Category cells;
\* rows 8 and 9 hold a date that is not day/month/year
HandRows == <<
    CsvRow("CA-2023-1001", <<5, 1, 2023>>, <<9, 1, 2023>>, "Standard Class",
           "Aaron Bergman", "Consumer", "New York City", "New York", "East",
           "Hon Chair", "Furniture", "Chairs", <<100, 2, 10>>),
    CsvRow("CA-2023-1002", <<10, 2, 2023>>, <<12, 2, 2023>>, "First Class",
           "Brosina Hoffman", "Corporate", "Los Angeles", "California",
           "West", "Apple Phone", "Technology", "Phones", <<200, 1, 20>>),
    CsvRow("CA-2023-1003", <<1, 3, 2023>>, <<5, 3, 2023>>, "Standard Class",
           "Aaron Bergman", "Consumer", "Buffalo", "New York", "East",
           "Bush Table", "Furniture", "Tables", <<50, 3, -10>>),
    CsvRow("CA-2023-1001", <<5, 1, 2023>>, <<9, 1, 2023>>, "Standard Class",
           "Aaron Bergman", "Consumer", "New York City", "New York", "East",
           "Free Sample", "Technology", "Phones", <<0, 1, 10>>),
    CsvRow("CA-2023-1004", <<10, 2, 2023>>, <<10, 2, 2023>>, "",
           "Claire Gute", "Corporate", "", "California", "West",
           "Apple Phone", "Technology", "", <<100, 1, 20>>),
    CsvRow("CA-2023-1005", <<1, 3, 2023>>, <<2, 3, 2023>>, "First Class",
           "Claire Gute", "Corporate", "Los Angeles", "California", "West",
           "Free Sample", "Furniture", "Chairs", <<0, 1, -10>>),
    CsvRow("CA-2023-1002", <<10, 2, 2023>>, <<12, 2, 2023>>, "First Class",
           "Brosina Hoffman", "Corporate", "Los Angeles", "California",
           "West", "Free Sample", "Technology", "Phones", <<0, 1, 0>>),
    CsvRow("CA-2023-1006", <<1, 13, 2023>>, <<1, 14, 2023>>,
           "Standard Class", "Aaron Bergman", "Consumer", "Buffalo",
           "New York", "East", "Hon Chair", "Furniture", "Chairs", <<100, 1, 10>>),
    CsvRow("CA-2023-1007", <<5, 1, 2023>>, <<2023, 1, 9>>, "First Class",
           "Claire Gute", "Consumer", "Buffalo", "New York", "East",
           "Bush Table", "Furniture", "Tables", <<50, 1, 10>>) >>

WideStates == <<
    "Alabama", "Arizona", "California", "Colorado", "Delaware", "Florida",
    "Georgia", "Illinois", "Indiana", "Kentucky", "Michigan" >>

WideProducts == <<
    "Apple Phone", "Avery Binder", "Bush Table", "Canon Copier",
    "Dell Monitor", "Eldon Shelf", "Fellowes Box", "GBC Binder",
    "Hon Chair", "Ibico Binder", "Jabra Headset", "Kensington Lock" >>

WideCustomers == <<
    "Aaron Bergman", "Brosina Hoffman", "Claire Gute", "Darrin Van Huff",
    "Emily Burns", "Frank Price", "Gene Hale", "Harold Pawlan",
    "Irene Maddox", "Joel Eaton", "Ken Black", "Linda Cazamias",
    "Maria Etezadi" >>

SalesPatterns == 1..4

\* Sales of row i of a generated file: rising, all equal, scattered with
\* ties and zeros, falling
WideSales(p, i) ==
    CASE p = 1 -> 10 * i
      [] p = 2 -> 100
      [] p = 3 -> 50 * ((7 * i) % 5)
      [] OTHER -> 10 * (MaxWide + 1 - i)

\* row i of a generated file: the States in turn, and a City name that
\* changes when the States start over, so that the rows are as many
\* (State, City) pairs; only the pair tells two cities of one name apart
WideRow(p, i) ==
    CsvRow("US-2023-2001", <<5, 1, 2023>>, <<8, 1, 2023>>, "Standard Class",
           WideCustomers[((i - 1) % Len(WideCustomers)) + 1], "Consumer",
           IF i <= Len(WideStates) THEN "Springfield" ELSE "Franklin",
           WideStates[((i - 1) % Len(WideStates)) + 1], "East",
           WideProducts[((i - 1) % Len(WideProducts)) + 1], "Furniture",
           "Chairs", <<WideSales(p, i), 1, 10>>)

\* whether the file's bytes are valid UTF-8 or only decode as Latin-1
Encodings == {"utf-8", "latin-1"}

\* the files made of n or fewer of the hand-written rows, in their order
FilesOfRows(e, n) ==
    {[enc |-> e, rows |-> Pick(HandRows, S)] :
        S \in {T \in SUBSET (1..Len(HandRows)) : Cardinality(T) \in 1..n}}

\* as valid UTF-8 the files of up to MaxRows rows; with bytes that only
\* decode as Latin-1 the one-row files
HandFiles == FilesOfRows("utf-8", MaxRows) \cup FilesOfRows("latin-1", 1)

WideFiles ==
    {[enc |-> "utf-8", rows |-> [i \in 1..MaxWide |-> WideRow(p, i)]] :
        p \in SalesPatterns}

InputFiles == HandFiles \cup WideFiles

---------------------------------------------------------------------------
(* load_data *)

\* read_csv turns an empty text cell into NaN
Cell(c) == IF c = "" THEN NaN ELSE c

\* pd.read_csv: the rows with their RangeIndex label and the text columns
\* read; the two date columns are still text
ReadCsv(rows) ==
    [i \in 1..Len(rows) |->
        [idx |-> i - 1,
         OrderID |-> rows[i].OrderID,
         OrderDate |-> rows[i].OrderDate,
         ShipDate |-> rows[i].ShipDate,
         ShipMode |-> Cell(rows[i].ShipMode),
         CustomerName |-> Cell(rows[i].CustomerName),
         Segment |-> Cell(rows[i].Segment),
         City |-> Cell(rows[i].City),
         State |-> Cell(rows[i].State),
         Region |-> Cell(rows[i].Region),
         ProductName |-> Cell(rows[i].ProductName),
         Category |-> Cell(rows[i].Category),
         SubCategory |-> Cell(rows[i].SubCategory),
         Sales |-> rows[i].Sales,
         Quantity |-> rows[i].Quantity,
         Profit |-> rows[i].Profit]]

\* what one read attempt can hit besides a decoding error
IoOutcomes == {"ok", "OSError"}

\* the result of pd.read_csv(..., encoding=enc): every byte sequence decodes
\* as Latin-1, only valid UTF-8 decodes as UTF-8
ReadResult(f, enc, io) ==
    IF io # "ok" THEN io
    ELSE IF enc = "utf-8" /\ f.enc # "utf-8" THEN "UnicodeDecodeError"
    ELSE "ok"

\* (df['Profit'] / df['Sales']) * 100
ProfitMargin(profit, sales) == FScale(FDiv(profit, sales), 100)

\* lines 46-53: the date conversions and the derived columns
Derive(r) ==
    LET od == ToDatetime(r.OrderDate)
        sd == ToDatetime(r.ShipDate)
    IN [idx |-> r.idx, OrderID |-> r.OrderID, OrderDate |-> od,
        ShipDate |-> sd, ShipMode |-> r.ShipMode,
        CustomerName |-> r.CustomerName, Segment |-> r.Segment,
        City |-> r.City, State |-> r.State, Region |-> r.Region,
        ProductName |-> r.ProductName, Category |-> r.Category,
        SubCategory |-> r.SubCategory, Sales |-> r.Sales,
        Quantity |-> r.Quantity, Profit |-> r.Profit,
        Year |-> od.year, Month |-> od.month,
        MonthYear |-> [year |-> od.year, month |-> od.month],
        ProfitMargin |-> ProfitMargin(r.Profit, r.Sales)]

DatesMatch(frame) ==
    \A i \in 1..Len(frame) :
        MatchesDMY(frame[i].OrderDate) /\ MatchesDMY(frame[i].ShipDate)

\* a later run: load_data is called and st.cache_data holds its value, so
\* the body is skipped (line 58); the widgets of lines 66-100 return what
\* the user has set, and the run stands before line 102
CacheHit ==
    /\ pc = "load"
    /\ cache # {}
    /\ df' \in cache
    /\ pc' = "filter"
    /\ UNCHANGED <<file, exc, raw, cache, date_range, regions, categories,
                   segments, states, filtered_df, dash, warning>>

\* line 41, the try block
ReadUtf8 ==
    /\ pc = "load"
    /\ cache = {}
    /\ \E io \in IoOutcomes :
         LET res == ReadResult(file, "utf-8", io)
         IN IF res = "ok"
            THEN raw' = ReadCsv(file.rows) /\ pc' = "convert" /\ exc' = None
            ELSE raw' = raw /\ pc' = "except" /\ exc' = res
    /\ UNCHANGED <<file, cache, df, date_range, regions, categories,
                   segments, states, filtered_df, dash, warning>>

\* lines 42-43: the bare except catches whatever the try block raised and
\* reads again as Latin-1; what this read raises leaves load_data
ExceptExceptions == {"UnicodeDecodeError", "OSError"}

ReadLatin1 ==
    /\ pc = "except"
    /\ exc \in ExceptExceptions
    /\ \E io \in IoOutcomes :
         LET res == ReadResult(file, "latin-1", io)
         IN IF res = "ok"
            THEN raw' = ReadCsv(file.rows) /\ pc' = "convert" /\ exc' = None
            ELSE raw' = raw /\ pc' = "error" /\ exc' = res
    /\ UNCHANGED <<file, cache, df, date_range, regions, categories,
                   segments, states, filtered_df, dash, warning>>

\* lines 46-55 and the cache's store of the returned frame; a date cell
\* that does not match the format raises ValueError out of load_data
Convert ==
    /\ pc = "convert"
    /\ IF DatesMatch(raw)
       THEN /\ df' = [i \in 1..Len(raw) |-> Derive(raw[i])]
            /\ cache' = {df'}
            /\ pc' = "widgets"
            /\ exc' = None
       ELSE /\ df' = df
            /\ cache' = cache
            /\ pc' = "error"
            /\ exc' = "ValueError"
    /\ raw' = <<>>
    /\ UNCHANGED <<file, date_range, regions, categories, segments, states,
                   filtered_df, dash, warning>>


---------------------------------------------------------------------------
(* Sidebar widgets *)

\* df[col].unique(), as the set of its values
Unique(frame, col) == {frame[i][col] : i \in 1..Len(frame)}

\* what st.date_input can return for a range: the tuple holds one date while
\* the user has picked the start only, two once the end is picked; every date
\* lies between Order Date's min and max.  The picks are the order dates.
DateRangeValues(frame) ==
    LET days == Unique(frame, "OrderDate")
    IN {<<a>> : a \in days} \cup {<<a, b>> : a \in days, b \in days}

\* value=(df['Order Date'].min(), df['Order Date'].max())
DateRangeDefault(frame) ==
    LET days == Unique(frame, "OrderDate")
        lo == CHOOSE a \in days : \A b \in days : a.ord <= b.ord
        hi == CHOOSE a \in days : \A b \in days : a.ord >= b.ord
    IN <<lo, hi>>

\* what st.multiselect can return: any selection of its options
MultiselectValues(frame, col) == SUBSET Unique(frame, col)

StatesValues(frame) ==
    {S \in SUBSET Unique(frame, "State") : Cardinality(S) <= MaxSelStates}

\* lines 66-100 on the session's first run: every widget returns its default
Widgets ==
    /\ pc = "widgets"
    /\ date_range' = DateRangeDefault(df)
    /\ regions' = Unique(df, "Region")
    /\ categories' = Unique(df, "Category")
    /\ segments' = Unique(df, "Segment")
    /\ states' = {}
    /\ pc' = "filter"
    /\ UNCHANGED <<file, exc, raw, cache, df, filtered_df, dash, warning>>

---------------------------------------------------------------------------
(* Apply filters *)

\* Series.isin(values)
Isin(v, values) == v \in values

\* the date mask with both bounds exclusive
InDateRangeExclusive(r, dr) ==
    /\ r.OrderDate.ord > dr[1].ord
    /\ r.OrderDate.ord < dr[2].ord

\* lines 104-105
InDateRange(r, dr) ==
    /\ r.OrderDate.ord >= dr[1].ord
    /\ r.OrderDate.ord <= dr[2].ord

\* lines 104-108: the boolean mask of one row
Mask(r, dr, regs, cats, segs) ==
    /\ InDateRange(r, dr)
    /\ Isin(r.Region, regs)
    /\ Isin(r.Category, cats)
    /\ Isin(r.Segment, segs)

\* lines 103-109: df[mask], a new frame holding the rows the mask keeps
BooleanIndex(frame, dr, regs, cats, segs) ==
    SelectSeq(frame, LAMBDA r : Mask(r, dr, regs, cats, segs))

\* the state filter without its "if states:" guard
StatesFilterUnguarded(view, sts) ==
    SelectSeq(view, LAMBDA r : Isin(r.State, sts))

\* lines 111-112
StatesFilter(view, sts) ==
    IF sts # {} THEN SelectSeq(view, LAMBDA r : Isin(r.State, sts)) ELSE view

\* the state mask taken from the unfiltered frame and applied by position
ApplyToByPosition(frame, dr, regs, cats, segs, sts) ==
    LET v == BooleanIndex(frame, dr, regs, cats, segs)
    IN IF sts # {}
       THEN Pick(v, {j \in 1..Len(v) : Isin(frame[j].State, sts)})
       ELSE v

\* lines 103-112 on a frame
ApplyTo(frame, dr, regs, cats, segs, sts) ==
    StatesFilter(BooleanIndex(frame, dr, regs, cats, segs), sts)

\* lines 102-112; date_range[1] raises IndexError on a one-date tuple
ApplyFilters ==
    /\ pc = "filter"
    /\ IF Len(date_range) < 2
       THEN /\ pc' = "error"
            /\ exc' = "IndexError"
            /\ filtered_df' = filtered_df
       ELSE /\ filtered_df' =
                ApplyTo(df, date_range, regions, categories, segments, states)
            /\ pc' = "branch"
            /\ exc' = exc
    /\ UNCHANGED <<file, raw, cache, df, date_range, regions, categories,
                   segments, states, dash, warning>>

---------------------------------------------------------------------------
(* Aggregation *)

RECURSIVE SortSet(_)
SortSet(S) ==
    IF S = {} THEN <<>> ELSE <<Min(S)>> \o SortSet(S \ {Min(S)})

Col(rows, name) == [i \in 1..Len(rows) |-> rows[i][name]]

\* Series.sum() of an integer-valued column
Sum(rows, name) == SumInt(Col(rows, name))

\* Series.nunique()
NUnique(rows, name) == Cardinality(Range(Col(rows, name)))

RankBase == Len(Collation) + 1

\* the values of the key columns in one row
GroupKey(r, cols) == [c \in 1..Len(cols) |-> r[cols[c]]]

\* the place of a key tuple in the lexicographic order of the tuples
RECURSIVE KeyRank(_)
KeyRank(k) ==
    IF k = <<>> THEN 0
    ELSE RankBase * KeyRank(SubSeq(k, 1, Len(k) - 1)) + Rank(k[Len(k)])

\* DataFrame.groupby(cols) on text columns: dropna=True leaves out every row
\* with a missing key value, sort=True orders the groups by key
GroupBy(v, cols) ==
    LET present ==
            SelectSeq(v, LAMBDA r : \A c \in 1..Len(cols) : r[cols[c]] # NaN)
        keys == {GroupKey(present[i], cols) : i \in 1..Len(present)}
        ranks == SortSet({KeyRank(k) : k \in keys})
    IN [j \in 1..Len(ranks) |->
          LET k == CHOOSE x \in keys : KeyRank(x) = ranks[j]
          IN [key |-> k,
              rows |-> SelectSeq(present,
                                 LAMBDA r : GroupKey(r, cols) = k)]]

\* the number of a monthly Period
PeriodOrdinal(k) == 12 * k.year + (k.month - 1)

\* DataFrame.groupby('Month-Year'): the groups in the order of the periods
\* (every Order Date was parsed, so no period is missing)
GroupByPeriod(v) ==
    LET keys == {v[i].MonthYear : i \in 1..Len(v)}
        ranks == SortSet({PeriodOrdinal(k) : k \in keys})
    IN [j \in 1..Len(ranks) |->
          LET k == CHOOSE x \in keys : PeriodOrdinal(x) = ranks[j]
          IN [key |-> k,
              rows |-> SelectSeq(v, LAMBDA r : r.MonthYear = k)]]

\* the n rows of smallest Sales, ascending
RECURSIVE nsmallest(_, _)
nsmallest(n, t) ==
    IF n = 0 \/ t = <<>> THEN <<>>
    ELSE LET m == Min(Range(Col(t, "Sales")))
             i == Min({j \in 1..Len(t) : t[j].Sales = m})
         IN <<t[i]>> \o nsmallest(n - 1, Pick(t, (1..Len(t)) \ {i}))

\* DataFrame.nlargest(n, 'Sales') and Series.nlargest(n), keep='first': the n
\* rows of largest Sales in descending order, equal values in the table's order
RECURSIVE nlargest(_, _)
nlargest(n, t) ==
    IF n = 0 \/ t = <<>> THEN <<>>
    ELSE LET m == Max(Range(Col(t, "Sales")))
             i == Min({j \in 1..Len(t) : t[j].Sales = m})
         IN <<t[i]>> \o nlargest(n - 1, Pick(t, (1..Len(t)) \ {i}))

\* lines 141-145
monthly_sales(v) ==
    LET g == GroupByPeriod(v)
    IN [j \in 1..Len(g) |->
          [MonthYear |-> g[j].key, Sales |-> Sum(g[j].rows, "Sales"),
           Profit |-> Sum(g[j].rows, "Profit"),
           OrderID |-> NUnique(g[j].rows, "OrderID")]]

\* line 181
category_sales(v) ==
    LET g == GroupBy(v, <<"Category">>)
    IN [j \in 1..Len(g) |->
          [Category |-> g[j].key[1], Sales |-> Sum(g[j].rows, "Sales")]]

\* line 194
region_sales(v) ==
    LET g == GroupBy(v, <<"Region">>)
    IN [j \in 1..Len(g) |->
          [Region |-> g[j].key[1], Sales |-> Sum(g[j].rows, "Sales")]]

\* line 211
state_sales(v) ==
    LET g == GroupBy(v, <<"State">>)
    IN [j \in 1..Len(g) |->
          [State |-> g[j].key[1], Sales |-> Sum(g[j].rows, "Sales")]]

\* line 212
top_states(v) == nlargest(TopStatesN, state_sales(v))

\* lines 227-231
segment_data(v) ==
    LET g == GroupBy(v, <<"Segment">>)
    IN [j \in 1..Len(g) |->
          [Segment |-> g[j].key[1], Sales |-> Sum(g[j].rows, "Sales"),
           Profit |-> Sum(g[j].rows, "Profit"),
           OrderID |-> NUnique(g[j].rows, "OrderID")]]

\* line 257, before .nlargest(10)
product_sales(v) ==
    LET g == GroupBy(v, <<"ProductName">>)
    IN [j \in 1..Len(g) |->
          [ProductName |-> g[j].key[1], Sales |-> Sum(g[j].rows, "Sales")]]

\* line 257
top_products(v) == nlargest(TopProductsN, product_sales(v))

\* lines 272-276
subcat_data(v) ==
    LET g == GroupBy(v, <<"SubCategory">>)
    IN [j \in 1..Len(g) |->
          [SubCategory |-> g[j].key[1], Sales |-> Sum(g[j].rows, "Sales"),
           Profit |-> Sum(g[j].rows, "Profit"),
           ProfitMargin |-> ProfitMargin(Sum(g[j].rows, "Profit"),
                                         Sum(g[j].rows, "Sales"))]]

\* lines 297-300
ship_mode_data(v) ==
    LET g == GroupBy(v, <<"ShipMode">>)
    IN [j \in 1..Len(g) |->
          [ShipMode |-> g[j].key[1], OrderID |-> NUnique(g[j].rows, "OrderID"),
           Sales |-> Sum(g[j].rows, "Sales")]]

\* line 312: the frame with its new Shipping Days column
WithShippingDays(v) ==
    [i \in 1..Len(v) |->
        v[i] @@ ("ShippingDays" :> (v[i].ShipDate.ord - v[i].OrderDate.ord))]

\* line 313, on the frame that has the Shipping Days column
ship_time(v) ==
    LET g == GroupBy(v, <<"ShipMode">>)
    IN [j \in 1..Len(g) |->
          [ShipMode |-> g[j].key[1],
           ShippingDays |->
               Fin(Sum(g[j].rows, "ShippingDays"), Len(g[j].rows))]]

\* line 332, before .nlargest(10)
customer_totals(v) ==
    LET g == GroupBy(v, <<"CustomerName">>)
    IN [j \in 1..Len(g) |->
          [CustomerName |-> g[j].key[1], Sales |-> Sum(g[j].rows, "Sales")]]

\* line 332
customer_sales(v) == nlargest(TopCustomersN, customer_totals(v))

\* lines 360-364
city_data(v) ==
    LET g == GroupBy(v, <<"State", "City">>)
    IN [j \in 1..Len(g) |->
          [State |-> g[j].key[1], City |-> g[j].key[2],
           Sales |-> Sum(g[j].rows, "Sales"),
           Profit |-> Sum(g[j].rows, "Profit"),
           OrderID |-> NUnique(g[j].rows, "OrderID")]]

\* line 367
top_cities(v) == nlargest(TopCitiesN, city_data(v))

\* lines 410-415
agg_data(v) ==
    LET g == GroupBy(v, <<"Category", "SubCategory", "Region">>)
    IN [j \in 1..Len(g) |->
          [Category |-> g[j].key[1], SubCategory |-> g[j].key[2],
           Region |-> g[j].key[3], Sales |-> Sum(g[j].rows, "Sales"),
           Profit |-> Sum(g[j].rows, "Profit"),
           Quantity |-> Sum(g[j].rows, "Quantity"),
           OrderID |-> NUnique(g[j].rows, "OrderID")]]

\* line 132
avg_profit_margin(v) == Mean(Col(v, "ProfitMargin"))

NoDash == [rendered |-> FALSE]

\* lines 116-433: everything the dashboard branch computes from filtered_df
Dashboard(v) ==
    [rendered |-> TRUE,
     total_sales |-> Sum(v, "Sales"),
     total_profit |-> Sum(v, "Profit"),
     total_orders |-> NUnique(v, "OrderID"),
     avg_profit_margin |-> avg_profit_margin(v),
     monthly_sales |-> monthly_sales(v),
     category_sales |-> category_sales(v),
     region_sales |-> region_sales(v),
     state_sales |-> state_sales(v),
     top_states |-> top_states(v),
     segment_data |-> segment_data(v),
     top_products |-> top_products(v),
     subcat_data |-> subcat_data(v),
     ship_mode_data |-> ship_mode_data(v),
     ship_time |-> ship_time(WithShippingDays(v)),
     customer_sales |-> customer_sales(v),
     city_data |-> city_data(v),
     top_cities |-> top_cities(v),
     agg_data |-> agg_data(v),
     total_records |-> Len(v)]

\* a test that is never true of a frame ("filtered_df is None")
emptyIsNone(v) == FALSE

\* DataFrame.empty
empty(v) == Len(v) = 0

\* df if filtered_df shared its rows: the column lands on df's rows too
DfSharingRows(frame, view) ==
    LET hit == {view[j].idx : j \in 1..Len(view)}
    IN [i \in 1..Len(frame) |->
          IF frame[i].idx \in hit
          THEN frame[i] @@ ("ShippingDays" :>
                   (frame[i].ShipDate.ord - frame[i].OrderDate.ord))
          ELSE frame[i]]

\* the frame df is after line 312 assigned the Shipping Days column of
\* filtered_df: boolean indexing copied the rows, so df is as it was
DfAfterShippingDays(frame, view) == frame

\* lines 115-433
MainDashboard ==
    /\ pc = "branch"
    /\ ~empty(filtered_df)
    /\ dash' = Dashboard(filtered_df)
    /\ filtered_df' = WithShippingDays(filtered_df)
    /\ df' = DfAfterShippingDays(df, filtered_df)
    /\ pc' = "done"
    /\ UNCHANGED <<file, exc, raw, cache, date_range, regions, categories,
                   segments, states, warning>>

\* lines 435-436
NoData ==
    /\ pc = "branch"
    /\ empty(filtered_df)
    /\ warning' = TRUE
    /\ pc' = "done"
    /\ UNCHANGED <<file, exc, raw, cache, df, date_range, regions,
                   categories, segments, states, filtered_df, dash>>

---------------------------------------------------------------------------
(* Script runs *)

\* the new widget values when the user changes one sidebar widget
WidgetChange(frame, dr, regs, cats, segs, sts) ==
    {[date_range |-> x, regions |-> regs, categories |-> cats,
      segments |-> segs, states |-> sts] : x \in DateRangeValues(frame)}
    \cup {[date_range |-> dr, regions |-> x, categories |-> cats,
           segments |-> segs, states |-> sts] :
             x \in MultiselectValues(frame, "Region")}
    \cup {[date_range |-> dr, regions |-> regs, categories |-> x,
           segments |-> segs, states |-> sts] :
             x \in MultiselectValues(frame, "Category")}
    \cup {[date_range |-> dr, regions |-> regs, categories |-> cats,
           segments |-> x, states |-> sts] :
             x \in MultiselectValues(frame, "Segment")}
    \cup {[date_range |-> dr, regions |-> regs, categories |-> cats,
           segments |-> segs, states |-> x] : x \in StatesValues(frame)}

\* the user changes a sidebar widget (its options come from the loaded
\* frame) and Streamlit starts the script again
Rerun ==
    /\ pc \in {"done", "error"}
    /\ cache # {}
    /\ \E frame \in cache :
         \E w \in WidgetChange(frame, date_range, regions, categories,
                               segments, states) :
            /\ date_range' = w.date_range
            /\ regions' = w.regions
            /\ categories' = w.categories
            /\ segments' = w.segments
            /\ states' = w.states
    /\ df' = <<>>
    /\ filtered_df' = <<>>
    /\ dash' = NoDash
    /\ warning' = FALSE
    /\ exc' = None
    /\ pc' = "load"
    /\ UNCHANGED <<file, raw, cache>>

\* load_data raised, nothing is cached: the next run calls it again
Retry ==
    /\ pc = "error"
    /\ cache = {}
    /\ pc' = "load"
    /\ exc' = None
    /\ UNCHANGED <<file, raw, cache, df, date_range, regions, categories,
                   segments, states, filtered_df, dash, warning>>

Init ==
    /\ file \in InputFiles
    /\ pc = "load"
    /\ exc = None
    /\ raw = <<>>
    /\ cache = {}
    /\ df = <<>>
    /\ date_range = <<>>
    /\ regions = {}
    /\ categories = {}
    /\ segments = {}
    /\ states = {}
    /\ filtered_df = <<>>
    /\ dash = NoDash
    /\ warning = FALSE

Next ==
    \/ CacheHit
    \/ ReadUtf8
    \/ ReadLatin1
    \/ Convert
    \/ Widgets
    \/ ApplyFilters
    \/ MainDashboard
    \/ NoData
    \/ Rerun
    \/ Retry

Spec == Init /\ [][Next]_vars


---------------------------------------------------------------------------
(* Properties *)

\* filtered_df has been assigned in this run
HasView == pc \in {"branch", "done"}

\* the columns df has (a row of filtered_df without its Shipping Days)
DfColumns(r) == [c \in DOMAIN r \ {"ShippingDays"} |-> r[c]]

ViewRows == [j \in 1..Len(filtered_df) |-> DfColumns(filtered_df[j])]

\* load_data's value for the file, when it returns one
Loaded == [i \in 1..Len(file.rows) |-> Derive(ReadCsv(file.rows)[i])]

\* positions of the dataset records that satisfy the whole predicate
Matching ==
    {i \in 1..Len(df) :
        /\ date_range[1].ord <= df[i].OrderDate.ord
        /\ df[i].OrderDate.ord <= date_range[2].ord
        /\ df[i].Region \in regions
        /\ df[i].Category \in categories
        /\ df[i].Segment \in segments
        /\ (states = {} \/ df[i].State \in states)}

\* positions of the dataset records that satisfy all but the state predicate
MatchingButState ==
    {i \in 1..Len(df) :
        /\ date_range[1].ord <= df[i].OrderDate.ord
        /\ df[i].OrderDate.ord <= date_range[2].ord
        /\ df[i].Region \in regions
        /\ df[i].Category \in categories
        /\ df[i].Segment \in segments}

\* C1: the filtered view is exactly the dataset records r with
\* start <= r.OrderDate <= end (both inclusive), r.Region in regions,
\* r.Category in categories, r.Segment in segments and (states empty or
\* r.State in states); so it is a subset of the dataset, and an empty
\* regions, categories or segments selection gives a view of size 0
C1_FilteredViewIsTheConjunction ==
    HasView =>
        /\ Range(ViewRows) = {df[i] : i \in Matching}
        /\ Len(filtered_df) = Cardinality(Matching)
        /\ Range(ViewRows) \subseteq Range(df)
        /\ (regions = {} \/ categories = {} \/ segments = {})
               => Len(filtered_df) = 0

\* a view that keeps a record dated on the start bound and one dated on the
\* end bound and leaves out a record for its date alone
C1_Witness ==
    /\ pc = "branch"
    /\ \E j \in 1..Len(filtered_df) :
          filtered_df[j].OrderDate.ord = date_range[1].ord
    /\ \E j \in 1..Len(filtered_df) :
          filtered_df[j].OrderDate.ord = date_range[2].ord
    /\ date_range[1].ord < date_range[2].ord
    /\ \E i \in 1..Len(df) :
          /\ df[i].OrderDate.ord > date_range[2].ord
          /\ df[i].Region \in regions
          /\ df[i].Category \in categories
          /\ df[i].Segment \in segments

\* C2: with no state selected the view is the view without the state
\* predicate; with states selected every record of the view has its State
\* among them and every record that passes the other predicates and has its
\* State among them is kept
C2_StateCriterionAsymmetric ==
    HasView =>
        /\ states = {} => Range(ViewRows) = {df[i] : i \in MatchingButState}
        /\ states # {} =>
              /\ \A j \in 1..Len(filtered_df) : filtered_df[j].State \in states
              /\ \A i \in MatchingButState :
                    df[i].State \in states => df[i] \in Range(ViewRows)

\* a selected state keeps one record and removes another that passes the rest
C2_Witness ==
    /\ pc = "branch"
    /\ states # {}
    /\ Len(filtered_df) > 0
    /\ \E i \in MatchingButState : df[i].State \notin states

\* C3: the filter step is total: whatever the widgets deliver, a start after
\* the end and a one-date range included, it produces a view (the empty one
\* for malformed criteria) and raises nothing
C3_FilterStepIsTotal ==
    /\ ~(pc = "error" /\ exc = "IndexError")
    /\ (HasView /\ date_range[1].ord > date_range[2].ord)
           => Len(filtered_df) = 0

MarginsOf(v) == Col(v, "ProfitMargin")

FiniteMargins(v) == SelectSeq(MarginsOf(v), LAMBDA x : x.kind = "finite")

\* C4: for a non-empty view holding a record with Sales = 0, the displayed
\* average profit margin is the mean of the finite margins of the other
\* records, and is itself finite
C4_MeanMarginExcludesNonFinite ==
    (/\ pc = "done"
     /\ dash.rendered
     /\ \E j \in 1..Len(filtered_df) : filtered_df[j].Sales = 0
     /\ FiniteMargins(filtered_df) # <<>>)
        => dash.avg_profit_margin =
               FDivCount(FSum(FiniteMargins(filtered_df)),
                         Len(FiniteMargins(filtered_df)))

\* C5: for every grouping dimension without a top-N cut, the per-group Sales
\* sums add up to the total Sales of the filtered view
C5_SalesConservation ==
    (pc = "done" /\ dash.rendered) =>
        /\ Sum(dash.monthly_sales, "Sales") = dash.total_sales
        /\ Sum(dash.category_sales, "Sales") = dash.total_sales
        /\ Sum(dash.region_sales, "Sales") = dash.total_sales
        /\ Sum(dash.state_sales, "Sales") = dash.total_sales
        /\ Sum(dash.segment_data, "Sales") = dash.total_sales
        /\ Sum(dash.subcat_data, "Sales") = dash.total_sales
        /\ Sum(dash.ship_mode_data, "Sales") = dash.total_sales
        /\ Sum(dash.city_data, "Sales") = dash.total_sales
        /\ Sum(dash.agg_data, "Sales") = dash.total_sales
        /\ dash.total_sales = Sum(filtered_df, "Sales")

\* the Sales of the view's records whose columns cols hold the values key
SalesWhere(cols, key) ==
    Sum(SelectSeq(filtered_df,
                  LAMBDA r : \A c \in 1..Len(cols) : r[cols[c]] = key[c]),
        "Sales")

\* the groups of the view by the columns cols: the value tuples present
\* with no missing value
GroupsOf(cols) ==
    {k \in {[c \in 1..Len(cols) |-> filtered_df[j][cols[c]]] :
              j \in 1..Len(filtered_df)} :
        \A c \in 1..Len(cols) : k[c] # NaN}

KeyOf(row, cols) == [c \in 1..Len(cols) |-> row[cols[c]]]

\* top is a top-n selection of the view's Sales grouped by cols
IsTopN(top, n, cols) ==
    /\ Len(top) <= n
    /\ \A a \in 1..Len(top) :
          /\ KeyOf(top[a], cols) \in GroupsOf(cols)
          /\ top[a].Sales = SalesWhere(cols, KeyOf(top[a], cols))
    /\ \A a, b \in 1..Len(top) :
          a < b => /\ top[a].Sales >= top[b].Sales
                   /\ KeyOf(top[a], cols) # KeyOf(top[b], cols)
    /\ \A k \in GroupsOf(cols) \ {KeyOf(top[a], cols) : a \in 1..Len(top)} :
          \A a \in 1..Len(top) : SalesWhere(cols, k) <= top[a].Sales

\* C6: each top-N table (10 states, 10 products, 10 customers, 15
\* city-state pairs) has at most N rows, each a row of the grouped sums of
\* the current view, in descending order of Sales, and no group left out
\* has a larger sum than a group included
C6_TopNSelections ==
    (pc = "done" /\ dash.rendered) =>
        /\ IsTopN(dash.top_states, TopStatesN, <<"State">>)
        /\ Range(dash.top_states) \subseteq Range(dash.state_sales)
        /\ IsTopN(dash.top_products, TopProductsN, <<"ProductName">>)
        /\ IsTopN(dash.customer_sales, TopCustomersN, <<"CustomerName">>)
        /\ IsTopN(dash.top_cities, TopCitiesN, <<"State", "City">>)
        /\ Range(dash.top_cities) \subseteq Range(dash.city_data)

\* every cut applies: more groups than N in each of the four tables, and
\* two states tie on the last place
C6_Witness ==
    /\ pc = "done"
    /\ dash.rendered
    /\ Len(dash.top_states) = TopStatesN
    /\ Len(dash.state_sales) > TopStatesN
    /\ Len(dash.top_products) = TopProductsN
    /\ Cardinality(GroupsOf(<<"ProductName">>)) > TopProductsN
    /\ Len(dash.customer_sales) = TopCustomersN
    /\ Cardinality(GroupsOf(<<"CustomerName">>)) > TopCustomersN
    /\ Len(dash.top_cities) = TopCitiesN
    /\ Len(dash.city_data) > TopCitiesN
    /\ \E g \in Range(dash.state_sales) \ Range(dash.top_states) :
          g.Sales = dash.top_states[TopStatesN].Sales

\* C7: on an empty view the run computes nothing over it and shows only the
\* "no data" message; metrics, charts and exports exist exactly when the
\* view is non-empty
C7_EmptyViewShowsOnlyTheMessage ==
    /\ dash.rendered => (HasView /\ Len(filtered_df) > 0 /\ ~warning)
    /\ warning => (HasView /\ Len(filtered_df) = 0 /\ dash = NoDash)
    /\ pc = "done" => (dash.rendered <=> Len(filtered_df) > 0)
    /\ pc = "done" => (warning <=> Len(filtered_df) = 0)

\* a run that ended on the message, its criteria being well-formed
C7_Witness ==
    /\ pc = "done"
    /\ warning
    /\ dash = NoDash
    /\ Len(filtered_df) = 0
    /\ date_range[1].ord <= date_range[2].ord
    /\ regions # {}

\* the script holds the loaded frame in df
HasDf ==
    \/ pc \in {"widgets", "filter", "branch", "done"}
    \/ (pc = "error" /\ exc = "IndexError")

\* C8: over any sequence of criteria changes the loaded dataset stays as
\* load_data returned it (the Shipping Days column reaches the view only),
\* and the view is the filter of that dataset under the current criteria
C8_DatasetNeverModified ==
    /\ cache # {} => cache = {Loaded}
    /\ HasDf => df = Loaded
    /\ HasView =>
          ViewRows = ApplyTo(Loaded, date_range, regions, categories,
                             segments, states)

\* a later run, under changed criteria, has written Shipping Days onto a
\* view that is a proper part of the dataset
C8_Witness ==
    /\ pc = "done"
    /\ dash.rendered
    /\ regions # Unique(df, "Region")
    /\ Len(filtered_df) < Len(df)
    /\ \A j \in 1..Len(filtered_df) :
          "ShippingDays" \in DOMAIN filtered_df[j]

\* C9: filtering the filtered view again with the same criteria removes
\* nothing
C9_RefilterIdempotent ==
    pc = "branch" =>
        ApplyTo(filtered_df, date_range, regions, categories, segments,
                states) = filtered_df

\* a view that the date bounds and a selected state both cut
C9_Witness ==
    /\ pc = "branch"
    /\ states # {}
    /\ Len(filtered_df) > 0
    /\ Cardinality(MatchingButState) < Len(df)
    /\ Len(filtered_df) < Cardinality(MatchingButState)

\* C10: UTF-8 is read first and Latin-1 is tried only after a decoding
\* error of the UTF-8 read; when both reads fail or a date is not
\* day/month/year the load is fatal and no dataset, view or output exists
C10_LatinRetryOnlyAfterDecodeError ==
    /\ pc = "except" => exc = "UnicodeDecodeError"
    /\ (pc = "error" /\ exc \in {"OSError", "UnicodeDecodeError",
                                 "ValueError"})
           => (cache = {} /\ df = <<>> /\ filtered_df = <<>>
               /\ dash = NoDash /\ ~warning)

=============================================================================
